---- MODULE Spec2Model ----
(***************************************************************************)
(* Model of the Know-it backend's spaced-repetition core:                  *)
(*   - app/flashcards/srs.py         the interval ladder and the review    *)
(*                                   transition (calculate_next_review),   *)
(*   - app/flashcards/repository.py  the flashcard store (create,          *)
(*                                   bulk_create, update_srs),             *)
(*   - app/flashcards/service.py     review_flashcard, a read-compute-write *)
(*                                   handler run by concurrent requests,   *)
(*   - app/notifications/*           the reminder jobs, the dedup log and  *)
(*                                   the push tokens.                      *)
(* Time is counted in minutes, the unit of INTERVALS_MINUTES.              *)
(***************************************************************************)
EXTENDS Integers, Sequences, FiniteSets, TLC

VARIABLES
    now,        \* the UTC clock, in minutes (datetime.now(timezone.utc))
    cards,      \* the flashcards table: id -> row
    req,        \* the review requests in flight: slot -> position in review_flashcard
    processed,  \* history: per card, the number of reviews whose write completed
    overlapped, \* history: per card, whether a review ever began while another was in flight
    last_review,\* history: the review whose write completed last
    raised,     \* history: the reviews that ended in an exception instead of a result
    fuel,       \* what is left of the bounds of the run: reviews, ticks, cards, and the
                \* number of requests that may be in flight together (slots)
    srs,        \* the pure transition under test: its input and, once applied, its output
    settings,   \* the user_notification_settings table: user -> row
    tokens,     \* the user_push_tokens table: token -> row
    log,        \* the notification_logs table (committed rows)
    last_session, \* per user, the date of the latest study session (<<>>: none)
    pass,       \* the runs of the reminder jobs in flight, each in its own transaction
    due_jobs,   \* the jobs the timer has fired and that have not started yet
    rejected,   \* history: the tokens the provider explicitly rejected (a ticket that is not ok)
    unreached,  \* history: the tokens of a send that timed out or failed in transport
    resp        \* the read call (due cards, timeline) under way or answered last

storeVars == <<cards, req, processed, overlapped, last_review, raised>>
scanVars == <<settings, tokens, log, last_session, pass, due_jobs, rejected, unreached>>

vars == <<now, storeVars, fuel, srs, scanVars, resp>>

----------------------------------------------------------------------------
(* Bounds of the model *)

MaxReviews == 2
MaxTicks == 1
DeepReviews == 10
StepSlack == 2
MaxCount == 2
MaxScans == 3
MaxSessions == 1
MaxLate == 1
MaxOverlap == 1
MaxQueries == 1
MaxRepeats == 2
MaxRegistrations == 1
MaxEdits == 1
GateScans == 2

CardIds == {"c1", "c2"}
Reqs == {"r1", "r2"}
Users == {"u1", "u2"}
Decks == {"d1", "d2", "d3"}
DeckOwner == [d \in Decks |-> IF d = "d3" THEN "u2" ELSE "u1"]

\* how far one step of the clock may move it: a minute, a day
Advance == {1, 1440}

----------------------------------------------------------------------------
(* app/flashcards/srs.py *)

INTERVALS_MINUTES ==
    <<1440, 10080, 43200, 129600, 262800, 525600, 788400, 1051200, 1576800>>

PERIOD_LABELS ==
    <<"1_day", "1_week", "1_month", "3_months", "6_months", "12_months",
      "18_months", "24_months", "36_months">>

MAX_STEP == Len(INTERVALS_MINUTES) - 1

FORGOT == "forgot"
HARD == "hard"
GOOD == "good"
ReviewRating == {FORGOT, HARD, GOOD}

Min(a, b) == IF a <= b THEN a ELSE b

\* Python's list[i]: 0-based, a negative i counts from the end, anything
\* outside -len..len-1 raises IndexError.
InIndexRange(list, i) == i >= 0 - Len(list) /\ i <= Len(list) - 1
ListGet(list, i) == IF i >= 0 THEN list[i + 1] ELSE list[Len(list) + i + 1]

Max(a, b) == IF a >= b THEN a ELSE b

\* new_step_of with GOOD left uncapped
new_step_of_uncapped(current_step, rating) ==
    IF rating = FORGOT THEN 0
    ELSE IF rating = HARD THEN current_step
    ELSE IF rating = GOOD THEN current_step + 1
    ELSE current_step

\* new_step_of with FORGOT stepping down one rung instead of resetting
new_step_of_demote(current_step, rating) ==
    IF rating = FORGOT THEN Max(current_step - 1, 0)
    ELSE IF rating = HARD THEN current_step
    ELSE IF rating = GOOD THEN Min(current_step + 1, MAX_STEP)
    ELSE current_step

\* new_step_of with HARD stepping down one rung instead of staying
new_step_of_hard_down(current_step, rating) ==
    IF rating = FORGOT THEN 0
    ELSE IF rating = HARD THEN Max(current_step - 1, 0)
    ELSE IF rating = GOOD THEN Min(current_step + 1, MAX_STEP)
    ELSE current_step

\* the step and the ladder index each rating selects (srs.py lines 87-102)
new_step_of(current_step, rating) ==
    IF rating = FORGOT THEN 0
    ELSE IF rating = HARD THEN current_step
    ELSE IF rating = GOOD THEN Min(current_step + 1, MAX_STEP)
    ELSE current_step

\* calculate_next_review scheduling with the interval of the step left
calculate_next_review_old_interval(current_step, review_count, rating, t) ==
    LET new_step == new_step_of(current_step, rating)
        idx == IF rating = FORGOT THEN 0 ELSE current_step
    IN  IF InIndexRange(INTERVALS_MINUTES, new_step) /\ InIndexRange(INTERVALS_MINUTES, idx)
        THEN [ok |-> TRUE,
              step |-> new_step,
              next_review_at |-> t + ListGet(INTERVALS_MINUTES, idx),
              interval_minutes |-> ListGet(INTERVALS_MINUTES, idx),
              review_count |-> review_count + 1]
        ELSE [ok |-> FALSE,
              step |-> new_step,
              next_review_at |-> t,
              interval_minutes |-> 0,
              review_count |-> review_count]

\* calculate_next_review counting only the reviews that were not forgotten
calculate_next_review_keep_count(current_step, review_count, rating, t) ==
    LET new_step == new_step_of(current_step, rating)
    IN  IF InIndexRange(INTERVALS_MINUTES, new_step)
        THEN [ok |-> TRUE,
              step |-> new_step,
              next_review_at |-> t + ListGet(INTERVALS_MINUTES, new_step),
              interval_minutes |-> ListGet(INTERVALS_MINUTES, new_step),
              review_count |-> IF rating = FORGOT THEN review_count ELSE review_count + 1]
        ELSE [ok |-> FALSE,
              step |-> new_step,
              next_review_at |-> t,
              interval_minutes |-> 0,
              review_count |-> review_count]

calculate_next_review(current_step, review_count, rating, t) ==
    LET new_review_count == review_count + 1
        new_step == new_step_of(current_step, rating)
    IN  IF InIndexRange(INTERVALS_MINUTES, new_step)
        THEN LET new_interval == ListGet(INTERVALS_MINUTES, new_step)
             IN  [ok |-> TRUE,
                  step |-> new_step,
                  next_review_at |-> t + new_interval,
                  interval_minutes |-> new_interval,
                  review_count |-> new_review_count]
        ELSE [ok |-> FALSE,
              step |-> new_step,
              next_review_at |-> t,
              interval_minutes |-> 0,
              review_count |-> review_count]

\* get_initial_srs_state scheduling the first review one interval ahead
get_initial_srs_state_ahead(t) ==
    [step |-> 0, next_review_at |-> t + INTERVALS_MINUTES[1], interval_minutes |-> INTERVALS_MINUTES[1]]

get_initial_srs_state(t) ==
    [step |-> 0, next_review_at |-> t, interval_minutes |-> INTERVALS_MINUTES[1]]

----------------------------------------------------------------------------
(* app/flashcards/repository.py, app/flashcards/models.py *)

\* a new row of the flashcards table, with the texts it is created with;
\* last_reviewed_at is nullable: <<>> is NULL
Flashcard(user_id, deck_id, t) ==
    LET s == get_initial_srs_state(t)
    IN  [user_id |-> user_id,
         deck_id |-> deck_id,
         front_content |-> "q0",
         back_content |-> "a0",
         step |-> s.step,
         next_review_at |-> s.next_review_at,
         interval_minutes |-> s.interval_minutes,
         review_count |-> 0,
         last_reviewed_at |-> <<>>,
         updated_at |-> t]

\* Optional[str] deck_id: None
NoDeck == "none"

\* due_rows over the rows never reviewed only
due_rows_new_only(user_id, deck_id, t) ==
    {c \in DOMAIN cards :
        /\ cards[c].user_id = user_id
        /\ cards[c].next_review_at <= t
        /\ cards[c].last_reviewed_at = <<>>
        /\ (deck_id = NoDeck \/ cards[c].deck_id = deck_id)}

\* due_rows with the comparison made strict: a row due at t itself is left out
due_rows_strict(user_id, deck_id, t) ==
    {c \in DOMAIN cards :
        /\ cards[c].user_id = user_id
        /\ cards[c].next_review_at < t
        /\ (deck_id = NoDeck \/ cards[c].deck_id = deck_id)}

\* the WHERE clause of get_due_cards and count_due_cards at the clock reading t
due_rows(user_id, deck_id, t) ==
    {c \in DOMAIN cards :
        /\ cards[c].user_id = user_id
        /\ cards[c].next_review_at <= t
        /\ deck_id # NoDeck => cards[c].deck_id = deck_id}

\* count_due_cards leaving the deck filter out
count_due_cards_any_deck(user_id, deck_id, t) == Cardinality(due_rows(user_id, NoDeck, t))

\* FlashcardRepository.count_due_cards
count_due_cards(user_id, deck_id, t) == Cardinality(due_rows(user_id, deck_id, t))

Idle == [pc |-> "idle"]
NoReview == [rating |-> "none"]

\* the budget of a run: how many more reviews may begin, clock steps be taken,
\* cards be created, requests be in flight together (slots), timer periods
\* elapse (scans), study sessions be recorded, passes outlive a timer period
\* (late), passes start while another pass is running (overlap), read calls
\* be made (queries), push tokens be registered again (registrations) and
\* flashcards be edited (edits)
NoFuel ==
    [reviews |-> 0, ticks |-> 0, cards |-> 0, slots |-> 0,
     scans |-> 0, sessions |-> 0, late |-> 0, overlap |-> 0, queries |-> 0,
     registrations |-> 0, edits |-> 0]

----------------------------------------------------------------------------
(* app/notifications/models.py: the tables of the reminder jobs *)

EVENING_PRACTICE == "evening_practice"
MORNING_FLASHCARDS == "morning_flashcards"
NotificationType == {EVENING_PRACTICE, MORNING_FLASHCARDS}

SENT == "sent"
FAILED == "failed"

Tokens == {"t1", "t2"}
TokenOwner == [k \in Tokens |-> IF k = "t1" THEN "u1" ELSE "u2"]

PassSlots == NotificationType \X {1, 2}

\* UserNotificationSettings: the column defaults are UTC and both reminders on
DefaultSettings ==
    [timezone |-> "UTC", evening_reminder_enabled |-> TRUE, morning_flashcard_enabled |-> TRUE]

\* the notification tables before any job has run: a settings row per user,
\* every registered token active, an empty log
NoScan ==
    /\ settings = [u \in Users |-> DefaultSettings]
    /\ tokens = [k \in Tokens |-> [user_id |-> TokenOwner[k], is_active |-> TRUE]]
    /\ log = {}
    /\ last_session = [u \in Users |-> <<>>]
    /\ pass = [s \in PassSlots |-> Idle]
    /\ due_jobs = {}
    /\ rejected = {}
    /\ unreached = {}

Init ==
    /\ now = 0
    /\ cards = <<>>
    /\ req = [p \in Reqs |-> Idle]
    /\ processed = <<>>
    /\ overlapped = <<>>
    /\ last_review = NoReview
    /\ raised = {}
    /\ resp = Idle
    /\ fuel = [NoFuel EXCEPT !.reviews = MaxReviews, !.ticks = MaxTicks,
                             !.cards = Cardinality(CardIds), !.slots = Cardinality(Reqs)]
    /\ srs = [applied |-> FALSE]
    /\ NoScan

\* time passes
Tick(d) ==
    /\ fuel.ticks > 0
    /\ now' = now + d
    /\ fuel' = [fuel EXCEPT !.ticks = @ - 1]
    /\ UNCHANGED <<storeVars, srs, resp, scanVars>>

\* FlashcardService.create_flashcard: the deck must belong to the caller
create_flashcard(id, user_id, deck_id) ==
    /\ id \notin DOMAIN cards
    /\ fuel.cards > 0
    /\ DeckOwner[deck_id] = user_id
    /\ cards' = (id :> Flashcard(user_id, deck_id, now)) @@ cards
    /\ processed' = (id :> 0) @@ processed
    /\ overlapped' = (id :> FALSE) @@ overlapped
    /\ fuel' = [fuel EXCEPT !.cards = @ - 1]
    /\ UNCHANGED <<now, req, last_review, raised, srs, resp, scanVars>>

\* FlashcardRepository.bulk_create: one initial state, computed once, for every
\* card of the list (FlashcardBulkCreate.cards has 1 to 100 entries)
bulk_create(ids, user_id, deck_id) ==
    /\ ids # {}
    /\ Cardinality(ids) <= fuel.cards
    /\ ids \cap DOMAIN cards = {}
    /\ DeckOwner[deck_id] = user_id
    /\ cards' = [id \in ids |-> Flashcard(user_id, deck_id, now)] @@ cards
    /\ processed' = [id \in ids |-> 0] @@ processed
    /\ overlapped' = [id \in ids |-> FALSE] @@ overlapped
    /\ fuel' = [fuel EXCEPT !.cards = @ - Cardinality(ids)]
    /\ UNCHANGED <<now, req, last_review, raised, srs, resp, scanVars>>

\* FlashcardRepository.get_by_id with verify_ownership: the row exists and is the caller's
get_by_id_ok(flashcard_id, user_id) ==
    /\ flashcard_id \in DOMAIN cards
    /\ cards[flashcard_id].user_id = user_id

\* the request slots are interchangeable: a new request takes the first idle one
FreeSlot == IF req["r1"].pc = "idle" THEN "r1" ELSE IF req["r2"].pc = "idle" THEN "r2" ELSE "none"

InFlight(c) == {q \in Reqs : req[q].pc = "computed" /\ req[q].flashcard_id = c}

\* FlashcardService.review_flashcard, lines 339-350: read the row, compute the
\* SRSUpdate from the step and the count just read. The requests of different
\* callers run in their own sessions; nothing is locked.
review_read(p, flashcard_id, rating, user_id) ==
    /\ p = FreeSlot
    /\ Cardinality({q \in Reqs : req[q].pc # "idle"}) < fuel.slots
    /\ fuel.reviews > 0
    /\ get_by_id_ok(flashcard_id, user_id)
    /\ LET flashcard == cards[flashcard_id]
           srs_update == calculate_next_review(flashcard.step, flashcard.review_count, rating, now)
       IN  IF srs_update.ok
           THEN /\ req' = [req EXCEPT ![p] =
                             [pc |-> "computed",
                              flashcard_id |-> flashcard_id,
                              user_id |-> user_id,
                              rating |-> rating,
                              read_step |-> flashcard.step,
                              srs_update |-> srs_update]]
                /\ raised' = raised
           ELSE \* the IndexError leaves the handler: nothing is written
                /\ req' = req
                /\ raised' = raised \cup
                      {[flashcard_id |-> flashcard_id, rating |-> rating,
                        read_step |-> flashcard.step]}
    /\ overlapped' = [overlapped EXCEPT ![flashcard_id] = @ \/ InFlight(flashcard_id) # {}]
    /\ fuel' = [fuel EXCEPT !.reviews = @ - 1]
    /\ UNCHANGED <<now, cards, processed, last_review, srs, resp, scanVars>>

\* update_srs leaving the stored interval as it was
update_srs_no_interval(flashcard, srs_update, t) ==
    [flashcard EXCEPT
        !.step = srs_update.step,
        !.next_review_at = srs_update.next_review_at,
        !.review_count = srs_update.review_count,
        !.last_reviewed_at = <<t>>,
        !.updated_at = t]

\* FlashcardRepository.update_srs, lines 450-459: the row is overwritten with the
\* SRSUpdate, whatever it holds by now; last_reviewed_at is stamped with a clock
\* reading of its own.
update_srs(flashcard, srs_update, t) ==
    [flashcard EXCEPT
        !.step = srs_update.step,
        !.next_review_at = srs_update.next_review_at,
        !.interval_minutes = srs_update.interval_minutes,
        !.review_count = srs_update.review_count,
        !.last_reviewed_at = <<t>>,
        !.updated_at = t]

\* FlashcardService.review_flashcard, lines 353-365: write the update back
review_write(p) ==
    /\ req[p].pc = "computed"
    /\ get_by_id_ok(req[p].flashcard_id, req[p].user_id)
    /\ cards' = [cards EXCEPT ![req[p].flashcard_id] = update_srs(@, req[p].srs_update, now)]
    /\ processed' = [processed EXCEPT ![req[p].flashcard_id] = @ + 1]
    /\ last_review' = [flashcard_id |-> req[p].flashcard_id,
                       rating |-> req[p].rating,
                       read_step |-> req[p].read_step,
                       step |-> req[p].srs_update.step]
    /\ req' = [req EXCEPT ![p] = Idle]
    /\ UNCHANGED <<now, overlapped, raised, fuel, srs, resp, scanVars>>

\* Optional[str]: None
None == "None"

\* FlashcardUpdate: each text is optional
FlashcardUpdate == [front_content : {None, "q1"}, back_content : {None, "a1"}]

\* update giving the card back to the start of the ladder
update_reset(flashcard, flashcard_data, t) ==
    [flashcard EXCEPT
        !.front_content = IF flashcard_data.front_content # None
                          THEN flashcard_data.front_content ELSE @,
        !.back_content = IF flashcard_data.back_content # None
                         THEN flashcard_data.back_content ELSE @,
        !.step = 0,
        !.next_review_at = t,
        !.interval_minutes = INTERVALS_MINUTES[1],
        !.updated_at = t]

\* FlashcardRepository.update, lines 422-427: the texts that are given
\* replace the stored ones, updated_at is stamped; the flush writes these
\* columns only
update(flashcard, flashcard_data, t) ==
    [flashcard EXCEPT
        !.front_content = IF flashcard_data.front_content # None
                          THEN flashcard_data.front_content ELSE @,
        !.back_content = IF flashcard_data.back_content # None
                         THEN flashcard_data.back_content ELSE @,
        !.updated_at = t]

\* FlashcardService.update_flashcard: the row must be the caller's
update_flashcard(flashcard_id, flashcard_data, user_id) ==
    /\ fuel.edits > 0
    /\ get_by_id_ok(flashcard_id, user_id)
    /\ cards' = [cards EXCEPT ![flashcard_id] = update(@, flashcard_data, now)]
    /\ fuel' = [fuel EXCEPT !.edits = @ - 1]
    /\ UNCHANGED <<now, req, processed, overlapped, last_review, raised, srs, resp, scanVars>>

Next ==
    \/ \E d \in Advance : Tick(d)
    \/ \E id \in CardIds, u \in Users, d \in Decks : create_flashcard(id, u, d)
    \/ \E ids \in SUBSET CardIds, u \in Users, d \in Decks : bulk_create(ids, u, d)
    \/ \E p \in Reqs, c \in CardIds, r \in ReviewRating, u \in Users : review_read(p, c, r, u)
    \/ \E p \in Reqs : review_write(p)

Spec == Init /\ [][Next]_vars

\* one card followed through a long run of reviews, up to the top of the ladder
InitDeep ==
    /\ now = 0
    /\ cards = <<>>
    /\ req = [p \in Reqs |-> Idle]
    /\ processed = <<>>
    /\ overlapped = <<>>
    /\ last_review = NoReview
    /\ raised = {}
    /\ resp = Idle
    /\ fuel = [NoFuel EXCEPT !.reviews = DeepReviews, !.ticks = 1, !.cards = 1, !.slots = 1]
    /\ srs = [applied |-> FALSE]
    /\ NoScan

SpecDeep == InitDeep /\ [][Next]_vars

\* the store with the edits of the cards' texts among its operations
NextEdit ==
    \/ Next
    \/ \E c \in CardIds, data \in FlashcardUpdate, u \in Users : update_flashcard(c, data, u)

InitEdit ==
    /\ now = 0
    /\ cards = <<>>
    /\ req = [p \in Reqs |-> Idle]
    /\ processed = <<>>
    /\ overlapped = <<>>
    /\ last_review = NoReview
    /\ raised = {}
    /\ resp = Idle
    /\ fuel = [NoFuel EXCEPT !.reviews = 1, !.ticks = 1, !.cards = Cardinality(CardIds),
                             !.slots = 1, !.edits = MaxEdits]
    /\ srs = [applied |-> FALSE]
    /\ NoScan

SpecEdit == InitEdit /\ [][NextEdit]_vars

----------------------------------------------------------------------------
(* The read calls: FlashcardService.get_due_cards and get_timeline, over
   FlashcardRepository.get_due_cards, count_due_cards and get_all_cards. *)

\* the values of the limit parameter tried (the route accepts 1 to 100)
Limits == {1, 2}

\* the number of rows written so far: the rows created and the reviews written
RECURSIVE SumProcessed(_)
SumProcessed(C) ==
    IF C = {} THEN 0
    ELSE LET c == CHOOSE x \in C : TRUE IN processed[c] + SumProcessed(C \ {c})

Writes == Cardinality(DOMAIN cards) + SumProcessed(DOMAIN cards)

\* ORDER BY next_review_at ASC: every order of the rows D in which no row
\* comes before a row due earlier; rows due at the same time come in any order
RECURSIVE order_by_next_review_at(_)
order_by_next_review_at(D) ==
    IF D = {} THEN {<<>>}
    ELSE UNION {{<<c>> \o q : q \in order_by_next_review_at(D \ {c})} :
                  c \in {x \in D : \A d \in D :
                                      cards[x].next_review_at <= cards[d].next_review_at}}

\* LIMIT n
Limit(q, n) == SubSeq(q, 1, Min(n, Len(q)))

\* get_due_cards returning the first rows of the table in any order
get_due_cards_unordered(user_id, limit, deck_id, t) ==
    {Limit(q, limit) : q \in {f \in [1..Cardinality(due_rows(user_id, deck_id, t))
                                         -> due_rows(user_id, deck_id, t)] :
                                  \A i, j \in DOMAIN f : f[i] = f[j] => i = j}}

\* FlashcardRepository.get_due_cards: the lists the statement can return at
\* the clock reading t
get_due_cards(user_id, limit, deck_id, t) ==
    {Limit(q, limit) : q \in order_by_next_review_at(due_rows(user_id, deck_id, t))}

\* FlashcardRepository.get_all_cards
get_all_cards(user_id) ==
    order_by_next_review_at({c \in DOMAIN cards : cards[c].user_id = user_id})

\* no read call is between two of its steps
NoCall == resp.pc \notin {"paged", "timing"}

\* FlashcardService.get_due_cards, lines 217-225: the deck, if one is given,
\* must be the caller's; then the page is read
due_page(user_id, limit, deck_id) ==
    /\ fuel.queries > 0
    /\ NoCall
    /\ deck_id # NoDeck => DeckOwner[deck_id] = user_id
    /\ \E page \in get_due_cards(user_id, limit, deck_id, now) :
          resp' = [pc |-> "paged",
                   user_id |-> user_id,
                   limit |-> limit,
                   deck_id |-> deck_id,
                   t_page |-> now,
                   writes |-> Writes,
                   cards |-> page]
    /\ fuel' = [fuel EXCEPT !.queries = @ - 1]
    /\ UNCHANGED <<now, storeVars, srs, scanVars>>

\* FlashcardService.get_due_cards, lines 226-234: the count is read, with a
\* clock reading of its own, and the response is built
due_count ==
    /\ resp.pc = "paged"
    /\ resp' = [pc |-> "done",
                user_id |-> resp.user_id,
                limit |-> resp.limit,
                deck_id |-> resp.deck_id,
                t_page |-> resp.t_page,
                writes |-> resp.writes,
                cards |-> resp.cards,
                total_due |-> count_due_cards(resp.user_id, resp.deck_id, now)]
    /\ UNCHANGED <<now, storeVars, fuel, srs, scanVars>>

\* the bucket of a card that is not due (service.py line 263)
period_label(step) ==
    IF step < Len(PERIOD_LABELS) THEN ListGet(PERIOD_LABELS, step)
    ELSE ListGet(PERIOD_LABELS, 0 - 1)

\* FlashcardService.get_timeline, line 247: the clock is read
timeline_begin(user_id) ==
    /\ fuel.queries > 0
    /\ NoCall
    /\ resp' = [pc |-> "timing", user_id |-> user_id, t |-> now]
    /\ fuel' = [fuel EXCEPT !.queries = @ - 1]
    /\ UNCHANGED <<now, storeVars, srs, scanVars>>

\* the periods list with the due bucket put last
timeline_periods_due_last(due_cards, period_cards) ==
    LET upto[i \in 0..Len(PERIOD_LABELS)] ==
            IF i = 0 THEN <<>>
            ELSE IF period_cards[PERIOD_LABELS[i]] # <<>>
                 THEN Append(upto[i - 1],
                             [period |-> PERIOD_LABELS[i],
                              count |-> Len(period_cards[PERIOD_LABELS[i]]),
                              cards |-> period_cards[PERIOD_LABELS[i]]])
                 ELSE upto[i - 1]
    IN  IF due_cards # <<>>
        THEN Append(upto[Len(PERIOD_LABELS)],
                    [period |-> "due", count |-> Len(due_cards), cards |-> due_cards])
        ELSE upto[Len(PERIOD_LABELS)]

\* the periods list of lines 266-278: the due bucket, then the label buckets
\* in the order of PERIOD_LABELS, the empty ones left out
timeline_periods(due_cards, period_cards) ==
    LET upto[i \in 0..Len(PERIOD_LABELS)] ==
            IF i = 0
            THEN IF due_cards # <<>>
                 THEN <<[period |-> "due", count |-> Len(due_cards), cards |-> due_cards]>>
                 ELSE <<>>
            ELSE IF period_cards[PERIOD_LABELS[i]] # <<>>
                 THEN Append(upto[i - 1],
                             [period |-> PERIOD_LABELS[i],
                              count |-> Len(period_cards[PERIOD_LABELS[i]]),
                              cards |-> period_cards[PERIOD_LABELS[i]]])
                 ELSE upto[i - 1]
    IN  upto[Len(PERIOD_LABELS)]

\* total_upcoming_of with its sum started at one
total_upcoming_with_due(period_cards) ==
    LET upto[i \in 0..Len(PERIOD_LABELS)] ==
            IF i = 0 THEN 1 ELSE upto[i - 1] + Len(period_cards[PERIOD_LABELS[i]])
    IN  upto[Len(PERIOD_LABELS)]

\* sum(len(cards) for cards in period_cards.values())
total_upcoming_of(period_cards) ==
    LET upto[i \in 0..Len(PERIOD_LABELS)] ==
            IF i = 0 THEN 0 ELSE upto[i - 1] + Len(period_cards[PERIOD_LABELS[i]])
    IN  upto[Len(PERIOD_LABELS)]

\* FlashcardService.get_timeline, lines 250-285: the rows are read and sorted
\* into the due list and the list of their step's label
timeline_read ==
    /\ resp.pc = "timing"
    /\ \E flashcards \in get_all_cards(resp.user_id) :
          LET IsDue(c) == cards[c].next_review_at <= resp.t
              due_cards == SelectSeq(flashcards, IsDue)
              period_cards ==
                  [label \in {PERIOD_LABELS[i] : i \in DOMAIN PERIOD_LABELS} |->
                      LET InPeriod(c) == ~IsDue(c) /\ period_label(cards[c].step) = label
                      IN  SelectSeq(flashcards, InPeriod)]
          IN  resp' = [pc |-> "timeline",
                       user_id |-> resp.user_id,
                       t |-> resp.t,
                       periods |-> timeline_periods(due_cards, period_cards),
                       total_due |-> Len(due_cards),
                       total_upcoming |-> total_upcoming_of(period_cards)]
    /\ UNCHANGED <<now, storeVars, fuel, srs, scanVars>>

NextQuery ==
    \/ Next
    \/ \E u \in Users, n \in Limits, d \in Decks \cup {NoDeck} : due_page(u, n, d)
    \/ due_count
    \/ \E u \in Users : timeline_begin(u)
    \/ timeline_read

\* FlashcardService.get_deck_timeline, lines 287-327: the deck must be the
\* caller's (line 295); the clock is read; then line 299 calls
\* FlashcardRepository.get_all_cards with a deck_id keyword, which that method
\* (repository.py 497-500: self, user_id) does not take: Python raises
\* TypeError there, before any row is read, and lines 301-327 never run
get_deck_timeline(deck_id, user_id) ==
    /\ fuel.queries > 0
    /\ NoCall
    /\ DeckOwner[deck_id] = user_id
    /\ resp' = [pc |-> "raised",
                user_id |-> user_id,
                deck_id |-> deck_id,
                t |-> now,
                error |-> "TypeError"]
    /\ fuel' = [fuel EXCEPT !.queries = @ - 1]
    /\ UNCHANGED <<now, storeVars, srs, scanVars>>

\* the read calls with the timeline of one deck among them
NextDeck ==
    \/ NextQuery
    \/ \E d \in Decks, u \in Users : get_deck_timeline(d, u)

InitQuery ==
    /\ now = 0
    /\ cards = <<>>
    /\ req = [p \in Reqs |-> Idle]
    /\ processed = <<>>
    /\ overlapped = <<>>
    /\ last_review = NoReview
    /\ raised = {}
    /\ resp = Idle
    /\ fuel = [NoFuel EXCEPT !.reviews = 1, !.ticks = 1, !.cards = Cardinality(CardIds),
                             !.slots = 1, !.queries = MaxQueries]
    /\ srs = [applied |-> FALSE]
    /\ NoScan

SpecQuery == InitQuery /\ [][NextQuery]_vars

\* the timeline of a user who has a card already: u1 created c1 at time 0 and
\* reviewed it GOOD at once, which put it on the second rung of the ladder
ReviewedCard ==
    update_srs(Flashcard("u1", "d1", 0), calculate_next_review(0, 0, GOOD, 0), 0)

InitTimeline ==
    /\ now = 0
    /\ cards = [c \in {"c1"} |-> ReviewedCard]
    /\ req = [p \in Reqs |-> Idle]
    /\ processed = [c \in {"c1"} |-> 1]
    /\ overlapped = [c \in {"c1"} |-> FALSE]
    /\ last_review = [flashcard_id |-> "c1", rating |-> GOOD, read_step |-> 0, step |-> 1]
    /\ raised = {}
    /\ resp = Idle
    /\ fuel = [NoFuel EXCEPT !.reviews = 1, !.ticks = 1, !.cards = 1,
                             !.slots = 1, !.queries = MaxQueries]
    /\ srs = [applied |-> FALSE]
    /\ NoScan

SpecTimeline == InitTimeline /\ [][NextQuery]_vars

\* the same user asking for the timeline of one deck as well
SpecDeck == InitTimeline /\ [][NextDeck]_vars

\* the same calls made again: a read call may follow another
InitRepeat ==
    /\ now = 0
    /\ cards = <<>>
    /\ req = [p \in Reqs |-> Idle]
    /\ processed = <<>>
    /\ overlapped = <<>>
    /\ last_review = NoReview
    /\ raised = {}
    /\ resp = Idle
    /\ fuel = [NoFuel EXCEPT !.reviews = 1, !.ticks = 1, !.cards = Cardinality(CardIds),
                             !.slots = 1, !.queries = MaxRepeats]
    /\ srs = [applied |-> FALSE]
    /\ NoScan

SpecRepeat == InitRepeat /\ [][NextQuery]_vars

----------------------------------------------------------------------------
(* calculate_next_review as a function of its arguments and the clock: every
   step around the ladder (in range, and out of range on both sides of what
   a Python list accepts), a few counts and clock readings, every rating and a
   value that is none of the three. *)

SrsSteps == (0 - Len(INTERVALS_MINUTES) - StepSlack)..(MAX_STEP + StepSlack)
SrsRatings == ReviewRating \cup {"easy"}
SrsTimes == {0, 1, 1440}

InitSRS ==
    /\ now \in SrsTimes
    /\ cards = <<>>
    /\ req = [p \in Reqs |-> Idle]
    /\ processed = <<>>
    /\ overlapped = <<>>
    /\ last_review = NoReview
    /\ raised = {}
    /\ resp = Idle
    /\ fuel = NoFuel
    /\ NoScan
    /\ \E s \in SrsSteps, n \in 0..MaxCount, r \in SrsRatings :
          srs = [applied |-> FALSE, current_step |-> s, review_count |-> n, rating |-> r]

\* one call of calculate_next_review(current_step, review_count, rating); an
\* IndexError is what comes out when the ladder lookup is out of range
srs_apply ==
    /\ ~srs.applied
    /\ srs' = [applied |-> TRUE,
               current_step |-> srs.current_step,
               review_count |-> srs.review_count,
               rating |-> srs.rating,
               t |-> now,
               out |-> calculate_next_review(srs.current_step, srs.review_count, srs.rating, now)]
    /\ UNCHANGED <<now, storeVars, fuel, scanVars, resp>>

NextSRS == srs_apply

SpecSRS == InitSRS /\ [][NextSRS]_vars

----------------------------------------------------------------------------
(* The loop body of get_timeline (service.py lines 256-264) as a function of
   one row and the clock reading: the stored step is an integer column, tried
   here over the ladder and over both sides of it. *)

\* srs.get_period_label: the label of the step, the last label outside 0..8
\* (no caller: the timeline has its own expression, period_label)
get_period_label(step) ==
    IF 0 <= step /\ step < Len(PERIOD_LABELS) THEN ListGet(PERIOD_LABELS, step)
    ELSE ListGet(PERIOD_LABELS, 0 - 1)

\* lines 259-264 for one row: "due", or the label of line 263; PERIOD_LABELS[f.step]
\* raises IndexError below -len(PERIOD_LABELS)
timeline_bucket(step, next_review_at, t) ==
    IF next_review_at <= t
    THEN [ok |-> TRUE, period |-> "due"]
    ELSE IF step < Len(PERIOD_LABELS) /\ ~InIndexRange(PERIOD_LABELS, step)
         THEN [ok |-> FALSE, error |-> "IndexError"]
         ELSE [ok |-> TRUE, period |-> period_label(step)]

InitLabel ==
    /\ now \in SrsTimes
    /\ cards = <<>>
    /\ req = [p \in Reqs |-> Idle]
    /\ processed = <<>>
    /\ overlapped = <<>>
    /\ last_review = NoReview
    /\ raised = {}
    /\ resp = Idle
    /\ fuel = NoFuel
    /\ NoScan
    /\ \E s \in SrsSteps, due \in SrsTimes :
          srs = [applied |-> FALSE, step |-> s, next_review_at |-> due]

\* the row goes through the loop body at the clock reading now
label_apply ==
    /\ ~srs.applied
    /\ srs' = [applied |-> TRUE,
               step |-> srs.step,
               next_review_at |-> srs.next_review_at,
               t |-> now,
               out |-> timeline_bucket(srs.step, srs.next_review_at, now)]
    /\ UNCHANGED <<now, storeVars, fuel, scanVars, resp>>

NextLabel == label_apply

SpecLabel == InitLabel /\ [][NextLabel]_vars

----------------------------------------------------------------------------
(* app/notifications/scheduler.py, service.py, repository.py: the reminder jobs.
   A timer outside these files calls run_evening_practice_reminder and
   run_morning_flashcard_reminder every SCAN_PERIOD minutes; neither function
   checks whether an earlier call of itself is still running. Each call (a
   pass) works in a session of its own: it sees the committed rows and what it
   flushed itself, and its writes reach the tables when it commits. *)

SCAN_PERIOD == 15
EVENING_HOUR == 20
MORNING_HOUR == 8
Day == 24 * 60

\* the zones of the IANA database the model knows, with their offset from UTC
\* in minutes (standard time); any other stored string is no zone
KnownZones == {"UTC", "Asia/Tokyo", "Australia/Eucla", "America/St_Johns"}
Zones == KnownZones \cup {"Not/AZone"}
ZoneOffset ==
    [z \in KnownZones |->
        CASE z = "UTC" -> 0
          [] z = "Asia/Tokyo" -> 9 * 60
          [] z = "Australia/Eucla" -> 8 * 60 + 45
          [] z = "America/St_Johns" -> 0 - (3 * 60 + 30)]

\* _local_hour without the fallback: a string that is no zone gives no hour
_local_hour_no_fallback(utc_now, tz_name) ==
    IF tz_name \in KnownZones
    THEN ((utc_now + ZoneOffset[tz_name] + Day) % Day) \div 60
    ELSE 0 - 1

_local_hour(utc_now, tz_name) ==
    IF tz_name \in KnownZones
    THEN ((utc_now + ZoneOffset[tz_name] + Day) % Day) \div 60
    ELSE (utc_now % Day) \div 60

\* datetime.combine(date.today(), datetime.min.time()), on a server whose date is the UTC date
today_start(t) == (t \div Day) * Day

\* _get_today_topic_titles: the user has a session dated today
studied_today(user_id) ==
    /\ last_session[user_id] # <<>>
    /\ last_session[user_id][1] >= today_start(now)

\* _count_due_cards without the filter on the user
_count_due_cards_any_user(user_id) ==
    Cardinality({c \in DOMAIN cards : cards[c].next_review_at <= now})

\* _count_due_cards, lines 55-65, with a clock reading of its own
_count_due_cards(user_id) ==
    Cardinality({c \in DOMAIN cards :
                    cards[c].user_id = user_id /\ cards[c].next_review_at <= now})

\* get_users_with_enabled without its condition
get_users_with_enabled_all(notification_type) == Users

\* NotificationSettingsRepository.get_users_with_enabled
get_users_with_enabled(notification_type) ==
    {u \in Users :
        IF notification_type = EVENING_PRACTICE
        THEN settings[u].evening_reminder_enabled
        ELSE settings[u].morning_flashcard_enabled}

Running(s) == pass[s].pc = "running"

\* the rows a pass reads: the committed ones and its own flushed ones
visible_log(s) == log \cup pass[s].tx_log

\* was_sent_today without the filter on the status
was_sent_today_any_status(s, user_id, notification_type) ==
    \E e \in visible_log(s) :
        /\ e.user_id = user_id
        /\ e.notification_type = notification_type
        /\ e.sent_at >= today_start(now)

\* NotificationLogRepository.was_sent_today
was_sent_today(s, user_id, notification_type) ==
    \E e \in visible_log(s) :
        /\ e.user_id = user_id
        /\ e.notification_type = notification_type
        /\ e.status = SENT
        /\ e.sent_at >= today_start(now)

get_active_tokens_for_user(s, user_id) ==
    {k \in Tokens : /\ tokens[k].user_id = user_id
                    /\ tokens[k].is_active
                    /\ k \notin pass[s].tx_deact}

\* what one call of PushService.send can come back with for the tokens T: a
\* ticket per token from a 200 response (ok: the tokens whose ticket says ok),
\* or no ticket at all: a status other than 200, a timeout, another HTTP error
NoReply == [kind |-> "none", ok |-> {}]
Replies(T) ==
    {[kind |-> "tickets", ok |-> S] : S \in SUBSET T}
        \cup {[kind |-> k, ok |-> {}] : k \in {"bad_status", "timeout", "http_error"}}

\* the (token, success) list of PushService.send: the tokens reported as failed
failed_tokens(T, reply) == T \ reply.ok

\* the loop body's tests before send_to_user (scheduler.py lines 87-93, 141-147)
triggered(s, user_id) ==
    IF s[1] = EVENING_PRACTICE
    THEN /\ _local_hour(pass[s].utc_now, settings[user_id].timezone) = EVENING_HOUR
         /\ studied_today(user_id)
    ELSE /\ _local_hour(pass[s].utc_now, settings[user_id].timezone) = MORNING_HOUR
         /\ _count_due_cards(user_id) > 0

\* send_to_user gets as far as PushService.send
reaches_push(s, user_id) ==
    /\ triggered(s, user_id)
    /\ ~was_sent_today(s, user_id, s[1])
    /\ get_active_tokens_for_user(s, user_id) # {}

Orderings(S) ==
    {f \in [1..Cardinality(S) -> S] : \A i, j \in 1..Cardinality(S) : f[i] = f[j] => i = j}

AnyRunning == \E s \in PassSlots : Running(s)

\* the timer: SCAN_PERIOD minutes later both jobs are fired again
ScanTick ==
    /\ fuel.scans > 0
    /\ due_jobs = {}
    /\ AnyRunning => fuel.late > 0
    /\ now' = now + SCAN_PERIOD
    /\ due_jobs' = NotificationType
    /\ fuel' = [fuel EXCEPT !.scans = @ - 1,
                            !.late = IF AnyRunning THEN @ - 1 ELSE @]
    /\ UNCHANGED <<storeVars, srs, resp, settings, tokens, log, last_session, pass, rejected,
                   unreached>>

\* a study session is recorded for the user (the analysis collaborator)
study(user_id) ==
    /\ fuel.sessions > 0
    /\ last_session[user_id] # <<now>>
    /\ last_session' = [last_session EXCEPT ![user_id] = <<now>>]
    /\ fuel' = [fuel EXCEPT !.sessions = @ - 1]
    /\ UNCHANGED <<now, storeVars, srs, resp, settings, tokens, log, pass, due_jobs, rejected,
                   unreached>>

\* run_*_reminder up to the loop: the clock is read once, the session opened,
\* the settings with the reminder enabled fetched (in no stated order)
begin_pass(s, order) ==
    /\ s[1] \in due_jobs
    /\ AnyRunning => fuel.overlap > 0
    /\ ~Running(s)
    /\ s[2] = 2 => Running(<<s[1], 1>>)
    /\ order \in Orderings(get_users_with_enabled(s[1]))
    /\ pass' = [pass EXCEPT ![s] =
                  [pc |-> "running",
                   utc_now |-> now,
                   all_settings |-> order,
                   i |-> 1,
                   tx_log |-> {},
                   tx_deact |-> {},
                   sent_count |-> 0]]
    /\ due_jobs' = due_jobs \ {s[1]}
    /\ fuel' = [fuel EXCEPT !.overlap = IF AnyRunning THEN @ - 1 ELSE @]
    /\ UNCHANGED <<now, storeVars, srs, resp, settings, tokens, log, last_session, rejected,
                   unreached>>

\* one turn of the loop: the hour test, the activation test, then send_to_user
\* (dedup, tokens, push, deactivation of the failed tokens, the log row)
scan_owner(s, reply) ==
    /\ Running(s)
    /\ pass[s].i <= Len(pass[s].all_settings)
    /\ LET user_id == pass[s].all_settings[pass[s].i]
           T == get_active_tokens_for_user(s, user_id)
           any_success == reply.ok # {}
           entry == [user_id |-> user_id,
                     notification_type |-> s[1],
                     status |-> IF any_success THEN SENT ELSE FAILED,
                     sent_at |-> now,
                     pass |-> pass[s].utc_now]
       IN  IF reaches_push(s, user_id)
           THEN /\ reply \in Replies(T)
                /\ pass' = [pass EXCEPT ![s] =
                              [@ EXCEPT !.i = @ + 1,
                                        !.tx_log = @ \cup {entry},
                                        !.tx_deact = @ \cup failed_tokens(T, reply),
                                        !.sent_count = IF any_success THEN @ + 1 ELSE @]]
                /\ rejected' = IF reply.kind = "tickets"
                               THEN rejected \cup failed_tokens(T, reply)
                               ELSE rejected
                /\ unreached' = IF reply.kind \in {"timeout", "http_error"}
                                THEN unreached \cup T
                                ELSE unreached
           ELSE /\ reply = NoReply
                /\ pass' = [pass EXCEPT ![s] = [@ EXCEPT !.i = @ + 1]]
                /\ UNCHANGED <<rejected, unreached>>
    /\ UNCHANGED <<now, storeVars, srs, resp, fuel, settings, tokens, log, last_session, due_jobs>>

\* the evaluation of an owner raises (a query fails, PushService.send lets an
\* exception through): the except clause of the job rolls the session back,
\* logs the exception and returns
scan_owner_raises(s) ==
    /\ Running(s)
    /\ pass[s].i <= Len(pass[s].all_settings)
    /\ pass' = [pass EXCEPT ![s] = Idle]
    /\ UNCHANGED <<now, storeVars, srs, resp, fuel, settings, tokens, log, last_session,
                   due_jobs, rejected, unreached>>

\* the loop is over: db.commit()
commit_pass(s) ==
    /\ Running(s)
    /\ pass[s].i > Len(pass[s].all_settings)
    /\ log' = log \cup pass[s].tx_log
    /\ tokens' = [k \in Tokens |->
                    IF k \in pass[s].tx_deact
                    THEN [tokens[k] EXCEPT !.is_active = FALSE]
                    ELSE tokens[k]]
    /\ pass' = [pass EXCEPT ![s] = Idle]
    /\ UNCHANGED <<now, storeVars, srs, resp, fuel, settings, last_session, due_jobs, rejected,
                   unreached>>

\* the flashcards the jobs count: u1 created one card at time 0, u2 has none
ScanTable == [c \in {"c1"} |-> Flashcard("u1", "d1", 0)]

\* the jobs are followed from 23:15 UTC on: the trigger hours of the zones tried
\* lie around the end of the UTC day (08:00 in Eucla is 23:15 UTC, 08:00 in
\* Tokyo 23:00 UTC, 20:00 in St John's 23:30 UTC)
StartTimes == {23 * 60 + 15}
ZonesTried == [u1 : {"Australia/Eucla", "Asia/Tokyo"}, u2 : {"America/St_Johns", "UTC"}]

ScanStart(late, overlap) ==
    /\ now \in StartTimes
    /\ cards = ScanTable
    /\ req = [p \in Reqs |-> Idle]
    /\ processed = [c \in DOMAIN cards |-> 0]
    /\ overlapped = [c \in DOMAIN cards |-> FALSE]
    /\ last_review = NoReview
    /\ raised = {}
    /\ resp = Idle
    /\ fuel = [NoFuel EXCEPT !.scans = MaxScans, !.sessions = MaxSessions,
                             !.late = late, !.overlap = overlap]
    /\ srs = [applied |-> FALSE]
    /\ \E z \in ZonesTried :
          settings = [u \in Users |-> [DefaultSettings EXCEPT !.timezone = z[u]]]
    /\ tokens = [k \in Tokens |-> [user_id |-> TokenOwner[k], is_active |-> TRUE]]
    /\ log = {}
    /\ last_session = [u \in Users |-> <<>>]
    /\ pass = [s \in PassSlots |-> Idle]
    /\ due_jobs = {}
    /\ rejected = {}
    /\ unreached = {}

\* every pass ends before the timer fires again, and the two jobs run one after
\* the other
InitScan == ScanStart(0, 0)

NextScan ==
    \/ ScanTick
    \/ \E u \in Users : study(u)
    \/ \E s \in PassSlots, order \in UNION {[1..n -> Users] : n \in 0..Cardinality(Users)} :
          begin_pass(s, order)
    \/ \E s \in PassSlots, reply \in Replies(Tokens) \cup {NoReply} : scan_owner(s, reply)
    \/ \E s \in PassSlots : scan_owner_raises(s)
    \/ \E s \in PassSlots : commit_pass(s)

SpecScan == InitScan /\ [][NextScan]_vars

\* the same jobs when a pass may outlive the timer period and a pass may start
\* while another one is running
InitOverlap == ScanStart(MaxLate, MaxOverlap)

SpecOverlap == InitOverlap /\ [][NextScan]_vars

\* NotificationService.register_token (service.py 126-133) on a token that is
\* in the table: PushTokenRepository.upsert sets its user and makes it active
\* again; the request commits on its own
register_token(user_id, k) ==
    /\ fuel.registrations > 0
    /\ ~tokens[k].is_active
    /\ tokens' = [tokens EXCEPT ![k] = [user_id |-> user_id, is_active |-> TRUE]]
    /\ fuel' = [fuel EXCEPT !.registrations = @ - 1]
    /\ UNCHANGED <<now, storeVars, srs, resp, settings, log, last_session, pass, due_jobs,
                   rejected, unreached>>

\* the flashcards of the gate runs: u1 has a card due since time 0; u2 has a
\* card reviewed FORGOT at 08:15 the day before, due at 08:15 of the day followed
GateDue == 8 * 60 + 15
GateTable ==
    [c \in CardIds |->
        IF c = "c1" THEN Flashcard("u1", "d1", 0)
        ELSE update_srs(Flashcard("u2", "d3", GateDue - Day),
                        calculate_next_review(0, 0, FORGOT, GateDue - Day),
                        GateDue - Day)]

\* the jobs are followed from 07:45 UTC or from 19:45 UTC on, into the trigger
\* hour of one of the jobs for an owner on UTC (the other job then finds every
\* owner outside its hour); each owner is on UTC, on a zone far from its
\* trigger hours, or has a string that is no zone; u2 may have both
\* reminders switched off; u1 studied last at 23:00 the day before, and one
\* study session is recorded during the run
GateStartTimes == {7 * 60 + 45, 19 * 60 + 45}
GateZones == [u1 : {"UTC", "Asia/Tokyo"}, u2 : {"UTC", "Not/AZone"}]

InitGate ==
    /\ now \in GateStartTimes
    /\ cards = GateTable
    /\ req = [p \in Reqs |-> Idle]
    /\ processed = [c \in DOMAIN cards |-> IF c = "c1" THEN 0 ELSE 1]
    /\ overlapped = [c \in DOMAIN cards |-> FALSE]
    /\ last_review = NoReview
    /\ raised = {}
    /\ resp = Idle
    /\ fuel = [NoFuel EXCEPT !.scans = GateScans, !.sessions = 1,
                             !.registrations = MaxRegistrations]
    /\ srs = [applied |-> FALSE]
    /\ \E z \in GateZones, on \in BOOLEAN :
          settings = [u \in Users |->
                        [timezone |-> z[u],
                         evening_reminder_enabled |-> (u = "u1" \/ on),
                         morning_flashcard_enabled |-> (u = "u1" \/ on)]]
    /\ tokens = [k \in Tokens |-> [user_id |-> TokenOwner[k], is_active |-> TRUE]]
    /\ log = {}
    /\ last_session = [u \in Users |-> IF u = "u1" THEN <<0 - 60>> ELSE <<>>]
    /\ pass = [s \in PassSlots |-> Idle]
    /\ due_jobs = {}
    /\ rejected = {}
    /\ unreached = {}

NextGate ==
    \/ NextScan
    \/ \E k \in Tokens : register_token(TokenOwner[k], k)

SpecGate == InitGate /\ [][NextGate]_vars

----------------------------------------------------------------------------
(* Properties of the reminder jobs *)

SentEntries(user_id, notification_type) ==
    {e \in log : /\ e.user_id = user_id
                 /\ e.notification_type = notification_type
                 /\ e.status = SENT}

\* the hour of the owner's own calendar an instant falls in (an unknown zone
\* counts as UTC), numbered from the epoch
LocalHourIndex(t, tz_name) ==
    IF tz_name \in KnownZones THEN (t + ZoneOffset[tz_name] + Day) \div 60 ELSE (t + Day) \div 60

\* C2: however many passes land inside an owner's trigger hour, one SENT row
\* at most is created for the owner and the kind: no two SENT rows of one
\* owner and kind lie in the same hour of the owner's calendar (nor, then, in
\* the same calendar day).
C2_OneSentPerTriggerHour ==
    \A u \in Users, ty \in NotificationType :
        \A e1, e2 \in SentEntries(u, ty) :
            LocalHourIndex(e1.sent_at, settings[u].timezone)
              = LocalHourIndex(e2.sent_at, settings[u].timezone) => e1 = e2

\* C3: a pass in which the evaluation of an owner failed still evaluates the
\* owners after that one and still commits the rows written before: whenever
\* a pass ends, no owner after the current one is left and the rows it
\* flushed are in the table.
C3_FailureKeepsBatch ==
    [][\A s \in PassSlots :
          (Running(s) /\ ~Running(s)') =>
              /\ pass[s].i >= Len(pass[s].all_settings)
              /\ pass[s].tx_log \subseteq log']_vars

\* C4: a job never runs beside itself, so no owner is sent a second reminder
\* by a pass that started before the SENT row of the first was committed: the
\* table never holds two SENT rows of one owner and kind dated the same UTC day.
C4_NoDuplicateFromOverlap ==
    \A u \in Users, ty \in NotificationType :
        \A e1, e2 \in SentEntries(u, ty) :
            today_start(e1.sent_at) = today_start(e2.sent_at) => e1 = e2

\* C5: a send that timed out or failed in transport leaves the owner's tokens
\* active: a token is inactive only if the provider rejected it.
C5_TimeoutKeepsTokens ==
    \A k \in Tokens :
        (k \in unreached /\ k \notin rejected) => tokens[k].is_active

----------------------------------------------------------------------------
(* Properties of the flashcard store and of the review transition *)

\* C1: two concurrent reviews of one flashcard never lose an update. The code
\* raises no concurrent-modification error, so every review that completed
\* must be counted: once no review of a card is in flight, its review_count
\* is the number of reviews completed on it.
C1_NoLostUpdate ==
    \A c \in DOMAIN cards :
        InFlight(c) = {} => cards[c].review_count = processed[c]

\* C6: for a card whose reviews were processed one after another, every step
\* leaves review_count equal to the number of reviews processed since its
\* creation, and never lowers it.
C6_ReviewCountExact ==
    [][\A c \in DOMAIN cards' :
          ~overlapped'[c] =>
              /\ cards'[c].review_count = processed'[c]
              /\ c \in DOMAIN cards => cards'[c].review_count >= cards[c].review_count]_vars

C6_Witness ==
    \E c \in DOMAIN cards :
        /\ ~overlapped[c]
        /\ processed[c] = 3
        /\ cards[c].review_count = 3
        /\ cards[c].step = 1

\* C7: the stored interval of every flashcard is the ladder entry of its
\* stored step.
C7_IntervalMatchesStep ==
    \A c \in DOMAIN cards :
        /\ cards[c].step \in 0..MAX_STEP
        /\ cards[c].interval_minutes = INTERVALS_MINUTES[cards[c].step + 1]

C7_Witness ==
    \E c \in DOMAIN cards :
        /\ cards[c].step = 3
        /\ cards[c].review_count = 5
        /\ cards[c].interval_minutes = 129600

C9_ForgotResets ==
    (srs.applied /\ srs.rating = FORGOT) =>
        /\ srs.out.ok
        /\ srs.out.step = 0
        /\ srs.out.next_review_at = srs.t + INTERVALS_MINUTES[1]

C9_Witness ==
    /\ srs.applied
    /\ srs.rating = FORGOT
    /\ srs.current_step = 5
    /\ srs.review_count = 2
    /\ srs.out.next_review_at = srs.t + 1440

\* C10: a GOOD review at time t of a card at a step of the ladder yields the
\* step min(step + 1, MAX_STEP) and a due time of t plus the ladder entry of
\* the step reached.
C10_GoodAdvances ==
    (srs.applied /\ srs.rating = GOOD /\ srs.current_step \in 0..MAX_STEP) =>
        /\ srs.out.ok
        /\ srs.out.step = Min(srs.current_step + 1, MAX_STEP)
        /\ srs.out.next_review_at = srs.t + INTERVALS_MINUTES[srs.out.step + 1]

C10_Witness ==
    /\ srs.applied
    /\ srs.rating = GOOD
    /\ srs.current_step = 1
    /\ srs.out.step = 2
    /\ srs.out.next_review_at = srs.t + 43200

\* C11: a HARD review at time t of a card at a step of the ladder leaves the
\* step as it is and yields a due time of t plus the ladder entry of that step.
C11_HardStays ==
    (srs.applied /\ srs.rating = HARD /\ srs.current_step \in 0..MAX_STEP) =>
        /\ srs.out.ok
        /\ srs.out.step = srs.current_step
        /\ srs.out.next_review_at = srs.t + INTERVALS_MINUTES[srs.current_step + 1]

C11_Witness ==
    /\ srs.applied
    /\ srs.rating = HARD
    /\ srs.current_step = 4
    /\ srs.out.step = 4
    /\ srs.out.next_review_at = srs.t + 262800

\* C12: calculate_next_review returns a result for every rating and every
\* step, in the ladder's range or not, and the step it returns lies in
\* 0..MAX_STEP with the interval of that step.
C12_TotalAndClamped ==
    srs.applied =>
        /\ srs.out.ok
        /\ srs.out.step \in 0..MAX_STEP
        /\ srs.out.interval_minutes = INTERVALS_MINUTES[srs.out.step + 1]

\* C13: every flashcard a creation adds has step 0, a due time equal to the
\* time of the creation, the first interval of the ladder, a review count of 0
\* and no last_reviewed_at; and as long as no review of it has been written
\* its due time is not after the current time, so a count of the owner's due
\* cards counts it.
C13_NewCardIsDue ==
    [][/\ \A c \in DOMAIN cards' \ DOMAIN cards :
              /\ cards'[c].step = 0
              /\ cards'[c].next_review_at = now
              /\ cards'[c].interval_minutes = INTERVALS_MINUTES[1]
              /\ cards'[c].review_count = 0
              /\ cards'[c].last_reviewed_at = <<>>
       /\ \A c \in DOMAIN cards' :
              processed'[c] = 0 =>
                  /\ cards'[c].step = 0
                  /\ cards'[c].last_reviewed_at = <<>>
                  /\ cards'[c].next_review_at <= now']_vars

C13_Witness ==
    \E c1, c2 \in DOMAIN cards :
        /\ c1 # c2
        /\ processed[c1] = 0
        /\ processed[c2] = 1
        /\ cards[c1].user_id = cards[c2].user_id
        /\ cards[c1].next_review_at < now
        /\ due_rows(cards[c1].user_id, NoDeck, now) = {c1}

\* C14: a review stamps its two fields with one clock reading: every card
\* that was reviewed has a last_reviewed_at, and its due time is its
\* last_reviewed_at plus its interval.
C14_OneTimestamp ==
    \A c \in DOMAIN cards :
        processed[c] > 0 =>
            /\ cards[c].last_reviewed_at # <<>>
            /\ cards[c].next_review_at
                  = cards[c].last_reviewed_at[1] + cards[c].interval_minutes

----------------------------------------------------------------------------
(* Properties of the read calls *)

\* the rows a due query for the user and the deck must select at the clock reading t
DueOf(user_id, deck_id, t) ==
    {c \in DOMAIN cards :
        /\ cards[c].user_id = user_id
        /\ cards[c].next_review_at <= t
        /\ (deck_id = NoDeck \/ cards[c].deck_id = deck_id)}

Range(q) == {q[i] : i \in DOMAIN q}

\* C15: the page of a due query holds only due cards of the owner (and of the
\* deck asked for), each once, in ascending order of due time; a due card is
\* left out only of a full page, and none left out is due earlier than a
\* card of the page.
C15_PageIsMostOverdue ==
    [][(resp.pc # "paged" /\ resp'.pc = "paged") =>
          LET page == resp'.cards
              due == DueOf(resp'.user_id, resp'.deck_id, now)
          IN  /\ Range(page) \subseteq due
              /\ \A i, j \in DOMAIN page :
                    /\ i < j => cards[page[i]].next_review_at <= cards[page[j]].next_review_at
                    /\ page[i] = page[j] => i = j
              /\ \A c \in due \ Range(page) :
                    /\ Len(page) = resp'.limit
                    /\ \A i \in DOMAIN page :
                          cards[page[i]].next_review_at <= cards[c].next_review_at]_vars

C15_Witness ==
    /\ resp.pc = "paged"
    /\ resp.limit = 1
    /\ resp.writes = Writes
    /\ Len(resp.cards) = 1
    /\ \E c \in DueOf(resp.user_id, resp.deck_id, resp.t_page) :
          cards[c].next_review_at > cards[resp.cards[1]].next_review_at

\* C16: a due query made again with the same owner, limit and deck at the
\* same clock reading, with no write in between, returns the list the first
\* call returned, in the same order.
C16_SameCallSamePage ==
    [][(/\ resp.pc = "done"
        /\ resp'.pc = "paged"
        /\ resp'.user_id = resp.user_id
        /\ resp'.limit = resp.limit
        /\ resp'.deck_id = resp.deck_id
        /\ resp'.t_page = resp.t_page
        /\ resp'.writes = resp.writes) => resp'.cards = resp.cards]_vars

\* C17: the response of a due call holds at most limit cards, and its
\* total_due is the number of the owner's cards (of the deck asked for, if
\* one is) that are due when the count is read, whatever the limit.
C17_TotalDueIsTrueCount ==
    [][(resp.pc = "paged" /\ resp'.pc = "done") =>
          /\ Len(resp'.cards) <= resp'.limit
          /\ resp'.total_due = Cardinality(DueOf(resp.user_id, resp.deck_id, now))]_vars

C17_Witness ==
    /\ resp.pc = "done"
    /\ resp.deck_id # NoDeck
    /\ resp.limit = 1
    /\ resp.total_due = 1
    /\ Cardinality(DueOf(resp.user_id, NoDeck, now)) = 2

\* C18: the page and the total of one due call come from one clock reading:
\* when nothing was written during the call, the page holds
\* min(limit, total_due) cards.
C18_OneClockReading ==
    (resp.pc = "done" /\ resp.writes = Writes) =>
        Len(resp.cards) = Min(resp.limit, resp.total_due)

\* the bucket the timeline call under way must put the card in
BucketOf(c) ==
    IF cards[c].next_review_at <= resp.t THEN "due" ELSE PERIOD_LABELS[cards[c].step + 1]

\* the places of the card in the periods list
PlacesOf(periods, c) ==
    {ij \in (DOMAIN periods) \X (1..Cardinality(DOMAIN cards)) :
        ij[2] \in DOMAIN periods[ij[1]].cards /\ periods[ij[1]].cards[ij[2]] = c}

RECURSIVE SumOfCounts(_, _)
SumOfCounts(periods, I) ==
    IF I = {} THEN 0
    ELSE LET i == CHOOSE x \in I : TRUE
         IN  Len(periods[i].cards) + SumOfCounts(periods, I \ {i})

\* C19: the periods of a timeline hold every card of the owner exactly once
\* and no other card; total_due is the size of the due bucket, total_upcoming
\* the sum of the sizes of the other buckets, and the two add up to the
\* number of the owner's cards.
C19_TimelinePartition ==
    [][(resp.pc = "timing" /\ resp'.pc = "timeline") =>
          LET periods == resp'.periods
              owned == {c \in DOMAIN cards : cards[c].user_id = resp.user_id}
              due == {i \in DOMAIN periods : periods[i].period = "due"}
          IN  /\ \A c \in owned : Cardinality(PlacesOf(periods, c)) = 1
              /\ \A c \in DOMAIN cards \ owned : PlacesOf(periods, c) = {}
              /\ resp'.total_due = SumOfCounts(periods, due)
              /\ resp'.total_upcoming = SumOfCounts(periods, DOMAIN periods \ due)
              /\ resp'.total_due + resp'.total_upcoming = Cardinality(owned)]_vars

C19_Witness ==
    /\ resp.pc = "timeline"
    /\ resp.total_due = 1
    /\ resp.total_upcoming = 1
    /\ Len(resp.periods) = 2

LabelIndex(label) == CHOOSE i \in DOMAIN PERIOD_LABELS : PERIOD_LABELS[i] = label

C21_BucketOfStep ==
    srs.applied =>
        /\ srs.out.ok
        /\ srs.next_review_at > srs.t =>
              srs.out.period = IF srs.step \in 0..MAX_STEP
                               THEN PERIOD_LABELS[srs.step + 1]
                               ELSE PERIOD_LABELS[Len(PERIOD_LABELS)]

\* the cards of the due bucket of a periods list
DueBucket(periods) ==
    UNION {Range(periods[i].cards) : i \in {k \in DOMAIN periods : periods[k].period = "due"}}

\* C22: the timeline and the due query agree on what is due: over the same
\* rows and at the same clock reading, the cards of the timeline's due bucket
\* are the cards the due query counts for the owner (a card due exactly at the
\* reading among them), and total_due is that count.
C22_SameDuePredicate ==
    [][(resp.pc = "timing" /\ resp'.pc = "timeline") =>
          /\ DueBucket(resp'.periods) = due_rows(resp.user_id, NoDeck, resp.t)
          /\ resp'.total_due = count_due_cards(resp.user_id, NoDeck, resp.t)]_vars

C22_Witness ==
    /\ resp.pc = "timeline"
    /\ resp.total_due = 1
    /\ resp.total_upcoming = 1
    /\ \E c \in DueBucket(resp.periods) :
          /\ cards[c].next_review_at = resp.t
          /\ cards[c].user_id = resp.user_id

\* the cards of all the buckets of a periods list
Placed(periods) == UNION {Range(periods[i].cards) : i \in DOMAIN periods}

\* C23: the timeline of one deck is answered, with a periods list that holds
\* exactly the owner's cards of that deck, the due ones in the due bucket and
\* the others under the label of their step, and with totals that count
\* those cards only.
C23_DeckTimeline ==
    [][\A d \in Decks, u \in Users :
          get_deck_timeline(d, u) =>
              /\ resp'.pc = "timeline"
              /\ LET of_deck == {c \in DOMAIN cards :
                                    cards[c].user_id = u /\ cards[c].deck_id = d}
                 IN  /\ Placed(resp'.periods) = of_deck
                     /\ DueBucket(resp'.periods) = due_rows(u, d, now)
                     /\ resp'.total_due + resp'.total_upcoming = Cardinality(of_deck)]_vars

----------------------------------------------------------------------------
(* Properties of the gates of the reminder jobs *)

\* the log rows written so far: the committed ones and the flushed ones of
\* the passes under way
Attempts == log \cup UNION {pass[s].tx_log : s \in {x \in PassSlots : Running(x)}}

\* the rows the step adds to the transaction of the pass s
NewRows(s) ==
    IF Running(s) /\ Running(s)' THEN pass'[s].tx_log \ pass[s].tx_log ELSE {}

\* the step is a turn of the loop of the pass s
LoopTurn(s) == Running(s) /\ Running(s)' /\ pass'[s].i = pass[s].i + 1

\* the hour of the day the instant falls in on the owner's calendar
HourOfDay(t, tz_name) == LocalHourIndex(t, tz_name) % 24

TriggerHour(notification_type) ==
    IF notification_type = EVENING_PRACTICE THEN EVENING_HOUR ELSE MORNING_HOUR

ToggleOn(user_id, notification_type) ==
    IF notification_type = EVENING_PRACTICE
    THEN settings[user_id].evening_reminder_enabled
    ELSE settings[user_id].morning_flashcard_enabled

\* the activation condition of the kind for the owner at the instant t: a due
\* card for the morning reminder, a study session of the UTC day for the
\* evening one
Activated(user_id, notification_type, t) ==
    IF notification_type = MORNING_FLASHCARDS
    THEN \E c \in DOMAIN cards : cards[c].user_id = user_id /\ cards[c].next_review_at <= t
    ELSE /\ last_session[user_id] # <<>>
         /\ last_session[user_id][1] >= (t \div Day) * Day

\* C24: every log row was written by a pass whose clock reading, on the
\* owner's stored zone, lies in the trigger hour of the row's kind (20 for
\* evening_practice, 8 for morning_flashcards), and for an owner who has the
\* reminder of that kind switched on.
C24_OnlyInTriggerHour ==
    \A e \in Attempts :
        /\ HourOfDay(e.pass, settings[e.user_id].timezone) = TriggerHour(e.notification_type)
        /\ ToggleOn(e.user_id, e.notification_type)

C24_Witness ==
    /\ ~settings["u2"].morning_flashcard_enabled
    /\ settings["u2"].timezone = "UTC"
    /\ now >= GateDue
    /\ \E e \in log : /\ e.user_id = "u1"
                       /\ e.notification_type = MORNING_FLASHCARDS
                       /\ e.pass >= GateDue
    /\ \A e \in Attempts : e.user_id # "u2"

\* C25: a row is written only for an owner whose activation condition holds
\* when the pass evaluates the owner: a card due at the time of the pass for
\* morning_flashcards, a study session of the current UTC day for
\* evening_practice, whatever the log holds.
C25_ActivationGates ==
    [][\A s \in PassSlots : \A e \in NewRows(s) :
          Activated(e.user_id, e.notification_type, e.pass)]_vars

C25_Witness ==
    /\ \E e \in log : /\ e.user_id = "u1"
                       /\ e.notification_type = MORNING_FLASHCARDS
                       /\ e.pass = GateDue - SCAN_PERIOD
    /\ \E e \in log : /\ e.user_id = "u2"
                       /\ e.notification_type = MORNING_FLASHCARDS
                       /\ e.pass = GateDue
    /\ \A e \in log : e.user_id = "u2" => e.pass >= GateDue

C27_BadZoneIsUTC ==
    [][\A s \in PassSlots :
          (/\ Running(s)
           /\ pass[s].i <= Len(pass[s].all_settings)
           /\ \E j \in DOMAIN pass[s].all_settings :
                 settings[pass[s].all_settings[j]].timezone \notin KnownZones) =>
              LET u == pass[s].all_settings[pass[s].i]
                  hour == IF settings[u].timezone \in KnownZones
                          THEN HourOfDay(pass[s].utc_now, settings[u].timezone)
                          ELSE (pass[s].utc_now % Day) \div 60
              IN  /\ ENABLED (\E reply \in Replies(Tokens) \cup {NoReply} : scan_owner(s, reply))
                  /\ LoopTurn(s) =>
                        (NewRows(s) # {} <=>
                            /\ hour = TriggerHour(s[1])
                            /\ Activated(u, s[1], now)
                            /\ \E k \in Tokens : /\ tokens[k].user_id = u
                                                  /\ tokens[k].is_active
                                                  /\ k \notin pass[s].tx_deact
                            /\ ~\E e \in log \cup pass[s].tx_log :
                                   /\ e.user_id = u
                                   /\ e.notification_type = s[1]
                                   /\ e.status = SENT
                                   /\ e.sent_at >= (now \div Day) * Day)]_vars

C27_Witness ==
    /\ settings["u2"].timezone = "Not/AZone"
    /\ settings["u1"].timezone = "UTC"
    /\ \E e1, e2 \in log :
          /\ e1.user_id = "u1"
          /\ e2.user_id = "u2"
          /\ e1.pass = e2.pass
          /\ e1.notification_type = e2.notification_type
          /\ e1.status = SENT
          /\ e2.status = SENT
          /\ (e2.pass % Day) \div 60 = TriggerHour(e2.notification_type)

\* C28: a push that a pass delivered is on record when the pass ends: whether
\* the pass ends by its commit or by the rollback that follows an exception
\* at a later owner, every SENT row it wrote is then in the log table, where
\* the dedup test of the next pass finds it.
C28_DeliveredIsLogged ==
    [][\A s \in PassSlots :
          (Running(s) /\ ~Running(s)') =>
              \A e \in pass[s].tx_log : e.status = SENT => e \in log']_vars

----------------------------------------------------------------------------
(* Properties of the scheduling state in the store *)

\* the scheduling state of a row
Scheduling(flashcard) ==
    <<flashcard.step, flashcard.next_review_at, flashcard.interval_minutes,
      flashcard.review_count, flashcard.last_reviewed_at>>

\* the step writes the review of the card c back
ReviewWritten(c) ==
    \E p \in Reqs : /\ req[p].pc = "computed"
                    /\ req[p].flashcard_id = c
                    /\ req'[p].pc = "idle"

\* C29: the scheduling state of a card (step, next_review_at,
\* interval_minutes, review_count, last_reviewed_at) changes only in the
\* step that writes a review of that card back: a step that changes the
\* texts of a card leaves its scheduling state as it was, and the write of a
\* review leaves the scheduling state of every other card as it was.
C29_OnlyReviewsReschedule ==
    [][\A c \in DOMAIN cards :
          /\ Scheduling(cards'[c]) # Scheduling(cards[c]) => ReviewWritten(c)
          /\ (cards'[c].front_content # cards[c].front_content
                \/ cards'[c].back_content # cards[c].back_content) =>
                 Scheduling(cards'[c]) = Scheduling(cards[c])]_vars

C29_Witness ==
    /\ DOMAIN cards = CardIds
    /\ \E c \in CardIds :
          /\ cards[c].front_content = "q1"
          /\ cards[c].review_count = 1
          /\ cards[c].updated_at > cards[c].last_reviewed_at[1]
          /\ \A d \in CardIds \ {c} :
                /\ cards[d].review_count = 0
                /\ cards[d].last_reviewed_at = <<>>

\* C30: whether a card is due depends on the clock and on its stored
\* next_review_at only. A review computed at the clock reading t schedules
\* the card at t + INTERVALS_MINUTES[new step] and its write stores that time
\* with that step, so no due query counts the card at a reading before it;
\* a step that is not the write of a review of the card leaves the card due
\* at the new clock reading exactly if that reading has reached the stored
\* time (no write is needed for it to become due, and once due it stays due);
\* and the count of a due query is the number of such cards.
C30_DueByClockAlone ==
    [][/\ \A p \in Reqs :
             (req[p].pc = "idle" /\ req'[p].pc = "computed") =>
                 req'[p].srs_update.next_review_at
                    = now + INTERVALS_MINUTES[req'[p].srs_update.step + 1]
       /\ \A c \in DOMAIN cards :
             IF ReviewWritten(c)
             THEN \E p \in Reqs :
                     /\ req[p].pc = "computed" /\ req[p].flashcard_id = c
                     /\ cards'[c].next_review_at = req[p].srs_update.next_review_at
                     /\ cards'[c].step = req[p].srs_update.step
                     /\ \A u \in Users :
                           cards'[c].next_review_at > now' => c \notin (due_rows(u, NoDeck, now))'
             ELSE /\ \A u \in Users :
                        c \in (due_rows(u, NoDeck, now))' <=>
                            (cards[c].user_id = u /\ cards[c].next_review_at <= now')
                  /\ \A u \in Users :
                        c \in due_rows(u, NoDeck, now) => c \in (due_rows(u, NoDeck, now))'
       /\ (resp.pc = "paged" /\ resp'.pc = "done") =>
             resp'.total_due =
                Cardinality({c \in DOMAIN cards :
                                /\ cards[c].user_id = resp.user_id
                                /\ resp.deck_id # NoDeck => cards[c].deck_id = resp.deck_id
                                /\ cards[c].next_review_at <= now})]_vars

\* a card reviewed once, not written since, that the clock has just reached
\* and that a due query then returned and counted
C30_Witness ==
    /\ resp.pc = "done"
    /\ resp.writes = Writes
    /\ resp.total_due >= 1
    /\ \E i \in DOMAIN resp.cards :
          LET c == resp.cards[i]
          IN  /\ cards[c].review_count = 1
              /\ cards[c].last_reviewed_at # <<>>
              /\ cards[c].last_reviewed_at[1] < cards[c].next_review_at
              /\ cards[c].next_review_at = now

====
